---- MODULE Spec2Model ----
(***************************************************************************)
(* Model of the interactive tooth zone of juego_dientes/cepilloParty.py:   *)
(* class TUIOTooth (ray-casting hit test, touch handlers, grace-period     *)
(* reset scheduled on the Kivy Clock) together with the callback that      *)
(* GameScreen.setup_game binds to on_brush_stroke                          *)
(* (GameScreen.handle_brush_stroke, which marks the tooth clean).          *)
(*                                                                         *)
(* Representation.                                                         *)
(*  - Python None is the empty set; an optional value v is {v}.            *)
(*  - Pixel coordinates are integers.  Touch points lie on a grid whose    *)
(*    step is brush_quota, so that |dx|*0.5 + |dy|*0.5 is an integer and   *)
(*    the float arithmetic of the source is exact on every modelled input. *)
(*  - x_weight and y_weight are kept in tenths (0.5 is 5).                 *)
(*  - normalized_coords holds the normalized vertices in units of         *)
(*    1/NormUnit (0.0 is 0, 0.5 is 1, 1.0 is 2); the window sizes are      *)
(*    multiples of NormUnit, so that x_norm * Window.width is an integer.  *)
(*  - The Kivy Clock is the sequence clock_events of the outstanding       *)
(*    ClockEvents created by Clock.schedule_once(self._reset_state,        *)
(*    self.grace_period), oldest first.  All have the same timeout, so     *)
(*    the oldest one is the next to fire.  Clock.unschedule(event)         *)
(*    cancels that one event only.                                         *)
(*  - active is the set of uids of the touches in contact.  Kivy gives     *)
(*    every touch a uid of its own and dispatches, per touch, one          *)
(*    on_touch_down, then on_touch_move events, then one on_touch_up.  A   *)
(*    uid that is neither in contact nor recorded in cursor_inside stands  *)
(*    for a fresh uid.                                                     *)
(*  - fired counts the calls of the three notification hooks made by the   *)
(*    last step, printed holds the diagnostic lines it printed, and ev     *)
(*    records the step: which handler ran, the uid of its touch, whether   *)
(*    the touch point passed the hit test, and for a Clock callback the    *)
(*    ClockEvent that fired.                                               *)
(*  - last_hook remembers which of on_brush_start and on_brush_stop was   *)
(*    called last ("start", "stop", or "none" before the first call); no   *)
(*    handler calls both in one step.                                      *)
(*  - query is the point (x, y) handed to point_inside_polygon when the    *)
(*    hit test is examined on its own (HitTest, HitCenter); the touch      *)
(*    handlers take their point from the touch and leave query alone.      *)
(*  - other is a second TUIOTooth added to the same screen: a record of    *)
(*    its six fields and of its outstanding ClockEvents.  It is None where *)
(*    one zone is modelled on its own.                                     *)
(***************************************************************************)
EXTENDS Integers, Sequences, FiniteSets, TLC

VARIABLES
    Window,             \* [width, height] of kivy.core.window.Window
    normalized_coords,  \* self.normalized_coords
    points_pixels,      \* self.points_pixels (cached pixel polygon)
    cursor_inside,      \* self.cursor_inside : None or {uid}
    pending_reset,      \* self.pending_reset : None or {ClockEvent}
    brush_to_clean,     \* self.brush_to_clean
    brush_score,        \* self.brush_score
    last_pos,           \* self.last_pos
    is_clean,           \* self.is_clean
    clock_events,       \* Kivy Clock: outstanding _reset_state events
    active,             \* uids of the touches in contact
    fired,              \* hook calls made by the last step
    last_hook,          \* the latest of on_brush_start / on_brush_stop
    printed,            \* diagnostic lines printed by the last step
    ev,                 \* the last step: [op, uid, event, inside]
    query,              \* (x, y) of a direct point_inside_polygon call
    other               \* a second TUIOTooth of the screen, or None

zone == <<cursor_inside, pending_reset, brush_to_clean, brush_score,
          last_pos, is_clean>>
vars == <<Window, normalized_coords, points_pixels, cursor_inside,
          pending_reset, brush_to_clean, brush_score, last_pos, is_clean,
          clock_events, active, fired, last_hook, printed, ev, query,
          other>>

(* What the handlers of the zone never write *)
aside == <<query, other>>

----------------------------------------------------------------------------
(* Bounds of the model *)

MaxCursors == 2     \* touch uids are 1..MaxCursors
MaxCoord == 2       \* touch coordinates are 0..MaxCoord grid steps
MaxTimers == 2      \* at most MaxTimers outstanding ClockEvents
MaxVertices == 4    \* polygons of the hit test have 1..MaxVertices vertices
MaxHit == 5         \* hit-test coordinates are 0..MaxHit steps of 30 pixels
MaxLong == 3        \* long moves span 0..MaxLong steps of two quotas

(* Program constants *)

brush_quota == 150          \* self.brush_quota
initial_brush_to_clean == 3 \* self.brush_to_clean = 3
y_weight == 5               \* self.y_weight = 0.5, in tenths
x_weight == 5               \* self.x_weight = 0.5, in tenths

(* Normalized coordinates (0.0-1.0) are kept in units of 1/NormUnit. *)
NormUnit == 2

None == {}

Cursors == 1..MaxCursors
Coords == {k * brush_quota : k \in 0..MaxCoord}
Points == Coords \X Coords
(* The window is resized in width only; its height is the grid's height.   *)
WindowWidths == {k * brush_quota : k \in (MaxCoord - 1)..MaxCoord}
WindowHeights == {MaxCoord * brush_quota}
Touches == [uid : Cursors, pos : Points]

(* The zone of the model, in normalized coordinates: the upper left half   *)
(* of the window, a triangle with a vertical, a horizontal and a slanted   *)
(* edge.                                                                   *)
Polygons ==
    { << <<0, 0>>, <<NormUnit, NormUnit>>, <<0, NormUnit>> >> }

Abs(v) == IF v < 0 THEN -v ELSE v
Min(a, b) == IF a < b THEN a ELSE b
Max(a, b) == IF a > b THEN a ELSE b

----------------------------------------------------------------------------
(* Coordinate conversion *)

_normalized_to_pixels(x_norm, y_norm, win) ==
    <<(x_norm * win.width) \div NormUnit, (y_norm * win.height) \div NormUnit>>

_get_polygon_points_pixels(coords, win) ==
    [i \in 1..Len(coords) |->
        _normalized_to_pixels(coords[i][1], coords[i][2], win)]

----------------------------------------------------------------------------
(* Ray casting *)

(* x <= (y - p1y) * (p2x - p1x) / (p2y - p1y) + p1x, for p1y # p2y,        *)
(* decided exactly on the integers.                                        *)
LeqXinters(x, y, p1, p2) ==
    LET num == (y - p1[2]) * (p2[1] - p1[1])
        den == p2[2] - p1[2]
    IN  IF den > 0 THEN (x - p1[1]) * den <= num
                   ELSE (x - p1[1]) * den >= num

(* Fault: only the edges that go up are counted. *)
EdgeFlipsUpwardOnly(x, y, p1, p2) ==
    /\ p1[2] < p2[2]
    /\ y > Min(p1[2], p2[2])
    /\ y <= Max(p1[2], p2[2])
    /\ x <= Max(p1[1], p2[1])
    /\ (p1[1] = p2[1] \/ LeqXinters(x, y, p1, p2))

(* Fault: a zero-length edge at the height of the point is counted. *)
EdgeFlipsCountsPoint(x, y, p1, p2) ==
    \/ (p1 = p2 /\ y = p1[2] /\ x <= p1[1])
    \/ /\ y > Min(p1[2], p2[2])
       /\ y <= Max(p1[2], p2[2])
       /\ x <= Max(p1[1], p2[1])
       /\ (p1[1] = p2[1] \/ LeqXinters(x, y, p1, p2))

(* Fault: a point at the largest x of an edge is not counted. *)
EdgeFlipsStrict(x, y, p1, p2) ==
    /\ y > Min(p1[2], p2[2])
    /\ y <= Max(p1[2], p2[2])
    /\ x < Max(p1[1], p2[1])
    /\ (p1[1] = p2[1] \/ LeqXinters(x, y, p1, p2))

(* The body of one loop iteration: does the edge p1 -> p2 flip `inside`?   *)
EdgeFlips(x, y, p1, p2) ==
    /\ y > Min(p1[2], p2[2])
    /\ y <= Max(p1[2], p2[2])
    /\ x <= Max(p1[1], p2[1])
    /\ (p1[1] = p2[1] \/ LeqXinters(x, y, p1, p2))

(* Fault: the loop stops before the edge that closes the polygon. *)
RECURSIVE RayLoopOpen(_, _, _, _, _, _)
RayLoopOpen(polygon, x, y, i, p1, inside) ==
    LET n == Len(polygon)
        p2 == polygon[(i % n) + 1]
    IN  IF i > n - 1 THEN inside
        ELSE RayLoopOpen(polygon, x, y, i + 1, p2,
                         IF EdgeFlips(x, y, p1, p2) THEN ~inside ELSE inside)

RECURSIVE RayLoop(_, _, _, _, _, _)
RayLoop(polygon, x, y, i, p1, inside) ==
    LET n == Len(polygon)
        p2 == polygon[(i % n) + 1]
    IN  IF i > n THEN inside
        ELSE RayLoop(polygon, x, y, i + 1, p2,
                     IF EdgeFlips(x, y, p1, p2) THEN ~inside ELSE inside)

(* Fault: `inside` starts out True. *)
point_inside_polygon_starts_inside(polygon, x, y) ==
    RayLoop(polygon, x, y, 0, polygon[1], TRUE)

point_inside_polygon(polygon, x, y) ==
    RayLoop(polygon, x, y, 0, polygon[1], FALSE)

(* get_center_point: the average of the pixel vertices.  The division is   *)
(* exact on the inputs for which center_is_exact holds.                    *)
RECURSIVE SumCoord(_, _, _)
SumCoord(points_px, axis, i) ==
    IF i > Len(points_px) THEN 0
    ELSE points_px[i][axis] + SumCoord(points_px, axis, i + 1)

center_is_exact(points_px) ==
    /\ SumCoord(points_px, 1, 1) % Len(points_px) = 0
    /\ SumCoord(points_px, 2, 1) % Len(points_px) = 0

get_center_point(coords, win) ==
    LET points_px == _get_polygon_points_pixels(coords, win)
        x_avg == SumCoord(points_px, 1, 1) \div Len(points_px)
        y_avg == SumCoord(points_px, 2, 1) \div Len(points_px)
    IN  <<x_avg, y_avg>>

----------------------------------------------------------------------------
(* Notifications and the Clock *)

NoHooks == [on_brush_start |-> 0, on_brush_stop |-> 0, on_brush_stroke |-> 0]

(* What a handler reports: the hooks it called and the lines it printed.   *)
Out(hooks, lines) ==
    /\ fired' = hooks
    /\ last_hook' = IF hooks.on_brush_start > 0 THEN "start"
                    ELSE IF hooks.on_brush_stop > 0 THEN "stop"
                    ELSE last_hook
    /\ printed' = lines

Range(s) == {s[i] : i \in 1..Len(s)}

(* Clock.schedule_once: a new ClockEvent, distinct from the outstanding    *)
(* ones.                                                                   *)
NewEvent == CHOOSE e \in 1..MaxTimers : e \notin Range(clock_events)

(* Fault: the pending ClockEvent is forgotten without being unscheduled.   *)
CancelForgets(events, e) == events

(* ClockEvent.cancel(), as called by Clock.unschedule(event) *)
Cancel(events, e) == SelectSeq(events, LAMBDA k : k \notin e)

----------------------------------------------------------------------------
(* GameScreen.handle_brush_stroke, bound to on_brush_stroke by setup_game: *)
(* the value of tooth_logic.is_clean after the call.                       *)
(* Fault: the callback marks the tooth clean one stroke early. *)
handle_brush_stroke_early(to_clean, clean) ==
    IF to_clean <= 1 THEN TRUE ELSE clean

(* Fault: the callback never marks the tooth clean. *)
handle_brush_stroke_never_clean(to_clean, clean) == clean

handle_brush_stroke(to_clean, clean) ==
    IF to_clean <= 0 THEN TRUE ELSE clean

(* Fault: the quota must be exceeded, not just reached. *)
quota_met_strict(score) == score > brush_quota

(* The point system of on_touch_move *)
quota_met(score) == score >= brush_quota

(* Fault: vertical movement counts double. *)
weighted_distance_vertical_double(pos, last) ==
    LET delta_x == Abs(pos[1] - last[1])
        delta_y == Abs(pos[2] - last[2])
    IN  (delta_x * x_weight + delta_y * 2 * y_weight) \div 10

weighted_distance(pos, last) ==
    LET delta_x == Abs(pos[1] - last[1])
        delta_y == Abs(pos[2] - last[2])
    IN  (delta_x * x_weight + delta_y * y_weight) \div 10

----------------------------------------------------------------------------
(* State management.  `lines` are the lines the caller printed before the  *)
(* call.                                                                   *)

(* Fault: a recovery ends the old engagement with on_brush_stop before it  *)
(* starts the new one.                                                     *)
_start_brushing_stops(touch, lines) ==
    IF is_clean
    THEN /\ UNCHANGED <<zone, clock_events>>
         /\ Out(NoHooks, lines)
    ELSE /\ clock_events' = IF pending_reset # None
                            THEN Cancel(clock_events, pending_reset)
                            ELSE clock_events
         /\ pending_reset' = None
         /\ cursor_inside' = {touch.uid}
         /\ brush_score' = 0
         /\ last_pos' = touch.pos
         /\ Out([NoHooks EXCEPT !.on_brush_start = 1,
                                !.on_brush_stop =
                                    IF pending_reset # None THEN 1 ELSE 0],
                IF pending_reset # None THEN lines \cup {"restored"}
                                        ELSE lines)
         /\ UNCHANGED <<brush_to_clean, is_clean>>

(* Fault: brush_score is not reset when brushing starts. *)
_start_brushing_keeps_score(touch, lines) ==
    IF is_clean
    THEN /\ UNCHANGED <<zone, clock_events>>
         /\ Out(NoHooks, lines)
    ELSE /\ clock_events' = IF pending_reset # None
                            THEN Cancel(clock_events, pending_reset)
                            ELSE clock_events
         /\ pending_reset' = None
         /\ cursor_inside' = {touch.uid}
         /\ last_pos' = touch.pos
         /\ Out([NoHooks EXCEPT !.on_brush_start = 1],
                IF pending_reset # None THEN lines \cup {"restored"}
                                        ELSE lines)
         /\ UNCHANGED <<brush_to_clean, brush_score, is_clean>>

(* Fault: brushing starts on a zone that is already clean. *)
_start_brushing_ignores_clean(touch, lines) ==
    /\ clock_events' = IF pending_reset # None
                       THEN Cancel(clock_events, pending_reset)
                       ELSE clock_events
    /\ pending_reset' = None
    /\ cursor_inside' = {touch.uid}
    /\ brush_score' = 0
    /\ last_pos' = touch.pos
    /\ Out([NoHooks EXCEPT !.on_brush_start = 1],
           IF pending_reset # None THEN lines \cup {"restored"} ELSE lines)
    /\ UNCHANGED <<brush_to_clean, is_clean>>

_start_brushing(touch, lines) ==
    IF is_clean
    THEN /\ UNCHANGED <<zone, clock_events>>
         /\ Out(NoHooks, lines)
    ELSE /\ clock_events' = IF pending_reset # None
                            THEN Cancel(clock_events, pending_reset)
                            ELSE clock_events
         /\ pending_reset' = None
         /\ cursor_inside' = {touch.uid}
         /\ brush_score' = 0
         /\ last_pos' = touch.pos
         /\ Out([NoHooks EXCEPT !.on_brush_start = 1],
                IF pending_reset # None THEN lines \cup {"restored"}
                                        ELSE lines)
         /\ UNCHANGED <<brush_to_clean, is_clean>>

(* Fault: pending_reset is not cleared by the reset. *)
_reset_state_keeps_pending(lines) ==
    /\ cursor_inside' = None
    /\ Out([NoHooks EXCEPT !.on_brush_stop = 1], lines)
    /\ UNCHANGED <<pending_reset, brush_to_clean, brush_score, last_pos,
                   is_clean>>

(* Fault: the reset does not call on_brush_stop. *)
_reset_state_silent(lines) ==
    /\ cursor_inside' = None
    /\ pending_reset' = None
    /\ Out(NoHooks, lines)
    /\ UNCHANGED <<brush_to_clean, brush_score, last_pos, is_clean>>

_reset_state(lines) ==
    /\ cursor_inside' = None
    /\ pending_reset' = None
    /\ Out([NoHooks EXCEPT !.on_brush_stop = 1], lines)
    /\ UNCHANGED <<brush_to_clean, brush_score, last_pos, is_clean>>

----------------------------------------------------------------------------
(* Kivy touch events *)

on_touch_down(touch) ==
    LET is_inside ==
            point_inside_polygon(points_pixels, touch.pos[1], touch.pos[2])
    IN  /\ IF is_inside
           THEN IF is_clean
                THEN /\ UNCHANGED <<zone, clock_events>>
                     /\ Out(NoHooks, {"already_clean"})
                ELSE IF pending_reset # None
                THEN _start_brushing(touch, {"recovered"})
                ELSE IF cursor_inside = None
                THEN _start_brushing(touch, {})
                ELSE /\ UNCHANGED <<zone, clock_events>>
                     /\ Out(NoHooks, {"rejected"})
           ELSE /\ UNCHANGED <<zone, clock_events>>
                /\ Out(NoHooks, {})
        /\ ev' = [op |-> "DOWN", uid |-> touch.uid, event |-> None,
                  inside |-> is_inside]
        /\ UNCHANGED <<Window, normalized_coords, points_pixels>>

(* Fault: one move pays out every quota its score holds. *)
on_touch_move_drains(touch) ==
    LET is_inside ==
            point_inside_polygon(points_pixels, touch.pos[1], touch.pos[2])
        score == brush_score + weighted_distance(touch.pos, last_pos)
        strokes == score \div brush_quota
        to_clean == brush_to_clean - strokes
    IN  /\ IF cursor_inside = None /\ is_inside
           THEN _start_brushing(touch, {})
           ELSE IF {touch.uid} = cursor_inside
           THEN IF is_inside
                THEN /\ IF ~is_clean
                        THEN /\ brush_score' = score % brush_quota
                             /\ brush_to_clean' = to_clean
                             /\ is_clean' =
                                    IF strokes > 0
                                    THEN handle_brush_stroke(to_clean, is_clean)
                                    ELSE is_clean
                             /\ IF strokes > 0
                                THEN Out([NoHooks EXCEPT
                                            !.on_brush_stroke = strokes],
                                         {"cleaned"})
                                ELSE Out(NoHooks, {})
                        ELSE /\ UNCHANGED <<brush_score, brush_to_clean,
                                            is_clean>>
                             /\ Out(NoHooks, {})
                     /\ last_pos' = touch.pos
                     /\ UNCHANGED <<cursor_inside, pending_reset,
                                    clock_events>>
                ELSE /\ _reset_state({"left"})
                     /\ UNCHANGED clock_events
           ELSE /\ UNCHANGED <<zone, clock_events>>
                /\ Out(NoHooks, {})
        /\ ev' = [op |-> "MOVE", uid |-> touch.uid, event |-> None,
                  inside |-> is_inside]
        /\ UNCHANGED <<Window, normalized_coords, points_pixels>>

on_touch_move(touch) ==
    LET is_inside ==
            point_inside_polygon(points_pixels, touch.pos[1], touch.pos[2])
        score == brush_score + weighted_distance(touch.pos, last_pos)
        stroke == quota_met(score)
        to_clean == IF stroke THEN brush_to_clean - 1 ELSE brush_to_clean
    IN  /\ IF cursor_inside = None /\ is_inside
           THEN _start_brushing(touch, {})
           ELSE IF {touch.uid} = cursor_inside
           THEN IF is_inside
                THEN /\ IF ~is_clean
                        THEN /\ brush_score' = IF stroke
                                               THEN score - brush_quota
                                               ELSE score
                             /\ brush_to_clean' = to_clean
                             /\ is_clean' =
                                    IF stroke
                                    THEN handle_brush_stroke(to_clean, is_clean)
                                    ELSE is_clean
                             /\ IF stroke
                                THEN Out([NoHooks EXCEPT
                                            !.on_brush_stroke = 1],
                                         {"cleaned"})
                                ELSE Out(NoHooks, {})
                        ELSE /\ UNCHANGED <<brush_score, brush_to_clean,
                                            is_clean>>
                             /\ Out(NoHooks, {})
                     /\ last_pos' = touch.pos
                     /\ UNCHANGED <<cursor_inside, pending_reset,
                                    clock_events>>
                ELSE /\ _reset_state({"left"})
                     /\ UNCHANGED clock_events
           ELSE /\ UNCHANGED <<zone, clock_events>>
                /\ Out(NoHooks, {})
        /\ ev' = [op |-> "MOVE", uid |-> touch.uid, event |-> None,
                  inside |-> is_inside]
        /\ UNCHANGED <<Window, normalized_coords, points_pixels>>

(* Fault: lifting the engaged cursor resets the zone at once, with no      *)
(* grace period.                                                           *)
on_touch_up_no_grace(touch) ==
    /\ IF {touch.uid} # cursor_inside
       THEN /\ UNCHANGED <<zone, clock_events>>
            /\ Out(NoHooks, {})
       ELSE /\ _reset_state({"touch_up"})
            /\ UNCHANGED clock_events
    /\ ev' = [op |-> "UP", uid |-> touch.uid, event |-> None,
              inside |-> point_inside_polygon(points_pixels, touch.pos[1],
                                              touch.pos[2])]
    /\ UNCHANGED <<Window, normalized_coords, points_pixels>>

(* Fault: the uid of the lifted cursor is not compared with cursor_inside. *)
on_touch_up_any_cursor(touch) ==
    /\ IF cursor_inside = None
       THEN /\ UNCHANGED <<zone, clock_events>>
            /\ Out(NoHooks, {})
       ELSE /\ Len(clock_events) < MaxTimers
            /\ pending_reset' = {NewEvent}
            /\ clock_events' = Append(clock_events, NewEvent)
            /\ Out(NoHooks, {"touch_up"})
            /\ UNCHANGED <<cursor_inside, brush_to_clean, brush_score,
                           last_pos, is_clean>>
    /\ ev' = [op |-> "UP", uid |-> touch.uid, event |-> None,
              inside |-> point_inside_polygon(points_pixels, touch.pos[1],
                                              touch.pos[2])]
    /\ UNCHANGED <<Window, normalized_coords, points_pixels>>

(* Fault: with no cursor engaged every lifted cursor schedules a reset. *)
on_touch_up_idle_schedules(touch) ==
    /\ IF cursor_inside # None /\ {touch.uid} # cursor_inside
       THEN /\ UNCHANGED <<zone, clock_events>>
            /\ Out(NoHooks, {})
       ELSE /\ Len(clock_events) < MaxTimers
            /\ pending_reset' = {NewEvent}
            /\ clock_events' = Append(clock_events, NewEvent)
            /\ Out(NoHooks, {"touch_up"})
            /\ UNCHANGED <<cursor_inside, brush_to_clean, brush_score,
                           last_pos, is_clean>>
    /\ ev' = [op |-> "UP", uid |-> touch.uid, event |-> None,
              inside |-> point_inside_polygon(points_pixels, touch.pos[1],
                                              touch.pos[2])]
    /\ UNCHANGED <<Window, normalized_coords, points_pixels>>

on_touch_up(touch) ==
    /\ IF {touch.uid} # cursor_inside
       THEN /\ UNCHANGED <<zone, clock_events>>
            /\ Out(NoHooks, {})
       ELSE /\ Len(clock_events) < MaxTimers
            /\ pending_reset' = {NewEvent}
            /\ clock_events' = Append(clock_events, NewEvent)
            /\ Out(NoHooks, {"touch_up"})
            /\ UNCHANGED <<cursor_inside, brush_to_clean, brush_score,
                           last_pos, is_clean>>
    /\ ev' = [op |-> "UP", uid |-> touch.uid, event |-> None,
              inside |-> point_inside_polygon(points_pixels, touch.pos[1],
                                              touch.pos[2])]
    /\ UNCHANGED <<Window, normalized_coords, points_pixels>>

(* Fault: the Clock drops the event without running its callback. *)
ClockFiresDropsEvent ==
    /\ clock_events # <<>>
    /\ clock_events' = Tail(clock_events)
    /\ Out(NoHooks, {})
    /\ ev' = [op |-> "TIMER", uid |-> 0, event |-> {Head(clock_events)},
              inside |-> FALSE]
    /\ UNCHANGED <<zone, Window, normalized_coords, points_pixels, active,
                   aside>>

(* The Clock fires the oldest outstanding event: its callback is           *)
(* self._reset_state.                                                      *)
ClockFires ==
    /\ clock_events # <<>>
    /\ _reset_state({})
    /\ clock_events' = Tail(clock_events)
    /\ ev' = [op |-> "TIMER", uid |-> 0, event |-> {Head(clock_events)},
              inside |-> FALSE]
    /\ UNCHANGED <<Window, normalized_coords, points_pixels, active, aside>>

(* Fault: both axes are scaled by the new width. *)
_update_pixel_coordinates_by_width(width, height) ==
    /\ Window' = [width |-> width, height |-> height]
    /\ points_pixels' = _get_polygon_points_pixels(
                            normalized_coords,
                            [width |-> width, height |-> width])
    /\ Out(NoHooks, {})
    /\ ev' = [op |-> "RESIZE", uid |-> 0, event |-> None, inside |-> FALSE]
    /\ UNCHANGED <<zone, normalized_coords, clock_events, active>>

(* Window on_resize: Window.width and Window.height have their new values *)
(* when the bound callback runs.                                           *)
_update_pixel_coordinates(width, height) ==
    /\ Window' = [width |-> width, height |-> height]
    /\ points_pixels' = _get_polygon_points_pixels(normalized_coords, Window')
    /\ Out(NoHooks, {})
    /\ ev' = [op |-> "RESIZE", uid |-> 0, event |-> None, inside |-> FALSE]
    /\ UNCHANGED <<zone, normalized_coords, clock_events, active>>

----------------------------------------------------------------------------
(* TUIOTooth.__init__ *)
Init ==
    /\ Window \in [width : WindowWidths, height : WindowHeights]
    /\ normalized_coords \in Polygons
    /\ points_pixels = _get_polygon_points_pixels(normalized_coords, Window)
    /\ is_clean \in BOOLEAN
    /\ cursor_inside = None
    /\ pending_reset = None
    /\ brush_to_clean = initial_brush_to_clean
    /\ brush_score = 0
    /\ last_pos = <<0, 0>>
    /\ clock_events = <<>>
    /\ active = {}
    /\ fired = NoHooks
    /\ last_hook = "none"
    /\ printed = {}
    /\ ev = [op |-> "INIT", uid |-> 0, event |-> None, inside |-> FALSE]
    /\ query = <<0, 0>>
    /\ other = None

(* A touch begins with a uid no touch has had, moves while in contact and  *)
(* ends once.                                                              *)
TouchDown ==
    \E touch \in Touches :
        /\ touch.uid \notin active
        /\ {touch.uid} # cursor_inside
        /\ on_touch_down(touch)
        /\ active' = active \cup {touch.uid}
        /\ UNCHANGED aside

TouchMove ==
    \E touch \in Touches :
        /\ touch.uid \in active
        /\ on_touch_move(touch)
        /\ UNCHANGED <<active, aside>>

TouchUp ==
    \E touch \in Touches :
        /\ touch.uid \in active
        /\ on_touch_up(touch)
        /\ active' = active \ {touch.uid}
        /\ UNCHANGED aside

Resize ==
    \E w \in WindowWidths, h \in WindowHeights :
        _update_pixel_coordinates(w, h) /\ UNCHANGED aside

Next ==
    \/ TouchDown
    \/ TouchMove
    \/ TouchUp
    \/ ClockFires
    \/ Resize

Spec == Init /\ [][Next]_vars

(* The Kivy main loop keeps ticking the Clock: an event scheduled with     *)
(* Clock.schedule_once fires once its timeout has passed, unless it is     *)
(* unscheduled first.                                                      *)
SpecLive == Spec /\ WF_vars(ClockFires)

(* The handlers driven with any sample at any time: submissions that the   *)
(* Kivy touch life cycle excludes (a uid seen again after its              *)
(* on_touch_up, a second on_touch_down of a uid) are included.             *)
AnyTouchDown ==
    \E touch \in Touches : on_touch_down(touch) /\ UNCHANGED <<active, aside>>

AnyTouchMove ==
    \E touch \in Touches : on_touch_move(touch) /\ UNCHANGED <<active, aside>>

AnyTouchUp ==
    \E touch \in Touches : on_touch_up(touch) /\ UNCHANGED <<active, aside>>

NextAnySample ==
    \/ AnyTouchDown
    \/ AnyTouchMove
    \/ AnyTouchUp
    \/ ClockFires
    \/ Resize

SpecAnySample == Init /\ [][NextAnySample]_vars

----------------------------------------------------------------------------
(* The hit test on its own.  A zone is constructed with any vertex list    *)
(* (the constructor checks nothing) in a 120 x 120 window, so that the     *)
(* pixel vertices are multiples of 60 and their average is an integer, and *)
(* point_inside_polygon is called at the point query, or at the point      *)
(* get_center_point returns.                                               *)

NormPoints == (0..NormUnit) \X (0..NormUnit)
HitPolygons == UNION {[1..n -> NormPoints] : n \in 1..MaxVertices}
HitWindow == [width |-> 120, height |-> 120]
HitCoords == {30 * k : k \in 0..MaxHit}
HitPoints == HitCoords \X HitCoords

InitHitTest ==
    /\ Window = HitWindow
    /\ normalized_coords \in HitPolygons
    /\ points_pixels = _get_polygon_points_pixels(normalized_coords, Window)
    /\ is_clean = FALSE
    /\ cursor_inside = None
    /\ pending_reset = None
    /\ brush_to_clean = initial_brush_to_clean
    /\ brush_score = 0
    /\ last_pos = <<0, 0>>
    /\ clock_events = <<>>
    /\ active = {}
    /\ fired = NoHooks
    /\ last_hook = "none"
    /\ printed = {}
    /\ ev = [op |-> "INIT", uid |-> 0, event |-> None, inside |-> FALSE]
    /\ query \in HitPoints
    /\ other = None

(* self.point_inside_polygon(x, y) at the point query *)
HitTest ==
    /\ ev' = [op |-> "HIT", uid |-> 0, event |-> None,
              inside |-> point_inside_polygon(points_pixels,
                                              query[1], query[2])]
    /\ Out(NoHooks, {})
    /\ UNCHANGED <<Window, normalized_coords, points_pixels, zone,
                   clock_events, active, aside>>

(* self.point_inside_polygon at the point self.get_center_point() returns *)
HitCenter ==
    LET center == get_center_point(normalized_coords, Window)
    IN  /\ center_is_exact(_get_polygon_points_pixels(normalized_coords,
                                                      Window))
        /\ query' = center
        /\ ev' = [op |-> "CENTER", uid |-> 0, event |-> None,
                  inside |-> point_inside_polygon(points_pixels,
                                                  center[1], center[2])]
        /\ Out(NoHooks, {})
        /\ UNCHANGED <<Window, normalized_coords, points_pixels, zone,
                       clock_events, active, other>>

NextHitTest ==
    \/ HitTest
    \/ HitCenter

SpecHitTest == InitHitTest /\ [][NextHitTest]_vars

----------------------------------------------------------------------------
(* The square zone [(0,0),(1,0),(1,1),(0,1)] in a square window of 100 or  *)
(* 200 pixels, touched at (50,50), (100,50) and (150,50).                  *)

Square ==
    << <<0, 0>>, <<NormUnit, 0>>, <<NormUnit, NormUnit>>, <<0, NormUnit>> >>
SquareSizes == {100, 200}
SquarePoints == {50, 100, 150} \X {50}
SquareTouches == [uid : Cursors, pos : SquarePoints]

InitSquare ==
    /\ Window \in {[width |-> w, height |-> w] : w \in SquareSizes}
    /\ normalized_coords = Square
    /\ points_pixels = _get_polygon_points_pixels(normalized_coords, Window)
    /\ is_clean \in BOOLEAN
    /\ cursor_inside = None
    /\ pending_reset = None
    /\ brush_to_clean = initial_brush_to_clean
    /\ brush_score = 0
    /\ last_pos = <<0, 0>>
    /\ clock_events = <<>>
    /\ active = {}
    /\ fired = NoHooks
    /\ last_hook = "none"
    /\ printed = {}
    /\ ev = [op |-> "INIT", uid |-> 0, event |-> None, inside |-> FALSE]
    /\ query = <<0, 0>>
    /\ other = None

SquareDown ==
    \E touch \in SquareTouches :
        /\ touch.uid \notin active
        /\ {touch.uid} # cursor_inside
        /\ on_touch_down(touch)
        /\ active' = active \cup {touch.uid}
        /\ UNCHANGED aside

SquareMove ==
    \E touch \in SquareTouches :
        /\ touch.uid \in active
        /\ on_touch_move(touch)
        /\ UNCHANGED <<active, aside>>

SquareUp ==
    \E touch \in SquareTouches :
        /\ touch.uid \in active
        /\ on_touch_up(touch)
        /\ active' = active \ {touch.uid}
        /\ UNCHANGED aside

SquareResize ==
    \E w \in SquareSizes :
        _update_pixel_coordinates(w, w) /\ UNCHANGED aside

NextSquare ==
    \/ SquareDown
    \/ SquareMove
    \/ SquareUp
    \/ ClockFires
    \/ SquareResize

SpecSquare == InitSquare /\ [][NextSquare]_vars

----------------------------------------------------------------------------
(* The square zone in a large window, touched at points of one row that    *)
(* are two quotas of weighted distance apart (x = 0 is outside the         *)
(* polygon), so that one move can add several quotas to brush_score.       *)

LongCoords == {2 * brush_quota * k : k \in 0..MaxLong}
LongPoints == LongCoords \X {2 * brush_quota}
LongTouches == [uid : Cursors, pos : LongPoints]
LongWindow ==
    [width |-> 2 * brush_quota * MaxLong, height |-> 2 * brush_quota * MaxLong]

InitLongMove ==
    /\ Window = LongWindow
    /\ normalized_coords = Square
    /\ points_pixels = _get_polygon_points_pixels(normalized_coords, Window)
    /\ is_clean \in BOOLEAN
    /\ cursor_inside = None
    /\ pending_reset = None
    /\ brush_to_clean = initial_brush_to_clean
    /\ brush_score = 0
    /\ last_pos = <<0, 0>>
    /\ clock_events = <<>>
    /\ active = {}
    /\ fired = NoHooks
    /\ last_hook = "none"
    /\ printed = {}
    /\ ev = [op |-> "INIT", uid |-> 0, event |-> None, inside |-> FALSE]
    /\ query = <<0, 0>>
    /\ other = None

LongDown ==
    \E touch \in LongTouches :
        /\ touch.uid \notin active
        /\ {touch.uid} # cursor_inside
        /\ on_touch_down(touch)
        /\ active' = active \cup {touch.uid}
        /\ UNCHANGED aside

LongMove ==
    \E touch \in LongTouches :
        /\ touch.uid \in active
        /\ on_touch_move(touch)
        /\ UNCHANGED <<active, aside>>

LongUp ==
    \E touch \in LongTouches :
        /\ touch.uid \in active
        /\ on_touch_up(touch)
        /\ active' = active \ {touch.uid}
        /\ UNCHANGED aside

NextLongMove ==
    \/ LongDown
    \/ LongMove
    \/ LongUp
    \/ ClockFires

SpecLongMove == InitLongMove /\ [][NextLongMove]_vars

----------------------------------------------------------------------------
(* Two TUIOTooth widgets on one GameScreen.  setup_game adds every tooth   *)
(* as a child of the screen, and the screen hands each touch event to its  *)
(* children one after another, stopping at the first handler that returns  *)
(* True.  The zone of the variables above is the child that is handed the  *)
(* event first; other is the child that comes after it.  The window is 200 *)
(* by 100: the first zone is its left half, the other zone is all of it,   *)
(* so (50,50) lies in both and (150,50) in the other zone only.  The hooks *)
(* and printed lines of the other zone are not recorded, and the model     *)
(* does not order the ClockEvents of one zone against those of the other.  *)

LeftHalf == << <<0, 0>>, <<1, 0>>, <<1, NormUnit>>, <<0, NormUnit>> >>
TwoWindow == [width |-> 200, height |-> 100]
TwoTouches == [uid : Cursors, pos : {<<50, 50>>, <<150, 50>>}]

(* The fields __init__ gives a TUIOTooth *)
other_init(coords, clean) ==
    [points_pixels  |-> _get_polygon_points_pixels(coords, TwoWindow),
     is_clean       |-> clean,
     cursor_inside  |-> None,
     pending_reset  |-> None,
     brush_to_clean |-> initial_brush_to_clean,
     brush_score    |-> 0,
     last_pos       |-> <<0, 0>>,
     clock_events   |-> <<>>]

other_start_brushing(z, touch) ==
    IF z.is_clean
    THEN z
    ELSE [z EXCEPT !.clock_events = IF z.pending_reset # None
                                    THEN Cancel(@, z.pending_reset)
                                    ELSE @,
                   !.pending_reset = None,
                   !.cursor_inside = {touch.uid},
                   !.brush_score = 0,
                   !.last_pos = touch.pos]

other_reset_state(z) ==
    [z EXCEPT !.cursor_inside = None, !.pending_reset = None]

other_on_touch_down(z, touch) ==
    IF point_inside_polygon(z.points_pixels, touch.pos[1], touch.pos[2])
    THEN IF z.is_clean
         THEN z
         ELSE IF z.pending_reset # None
         THEN other_start_brushing(z, touch)
         ELSE IF z.cursor_inside = None
         THEN other_start_brushing(z, touch)
         ELSE z
    ELSE z

other_on_touch_move(z, touch) ==
    LET is_inside ==
            point_inside_polygon(z.points_pixels, touch.pos[1], touch.pos[2])
        score == z.brush_score + weighted_distance(touch.pos, z.last_pos)
        stroke == quota_met(score)
        to_clean == IF stroke THEN z.brush_to_clean - 1 ELSE z.brush_to_clean
    IN  IF z.cursor_inside = None /\ is_inside
        THEN other_start_brushing(z, touch)
        ELSE IF {touch.uid} = z.cursor_inside
        THEN IF is_inside
             THEN IF ~z.is_clean
                  THEN [z EXCEPT !.brush_score = IF stroke
                                                 THEN score - brush_quota
                                                 ELSE score,
                                 !.brush_to_clean = to_clean,
                                 !.is_clean =
                                     IF stroke
                                     THEN handle_brush_stroke(to_clean, @)
                                     ELSE @,
                                 !.last_pos = touch.pos]
                  ELSE [z EXCEPT !.last_pos = touch.pos]
             ELSE other_reset_state(z)
        ELSE z

other_on_touch_up(z, touch) ==
    IF {touch.uid} # z.cursor_inside
    THEN z
    ELSE LET e == CHOOSE k \in 1..MaxTimers : k \notin Range(z.clock_events)
         IN  [z EXCEPT !.pending_reset = {e},
                       !.clock_events = Append(@, e)]

(* What on_touch_up returns: True when the lifted cursor is the engaged    *)
(* one, and the screen then hands the event to no later child.             *)
on_touch_up_returns(touch) == {touch.uid} = cursor_inside

InitTwoZones ==
    /\ Window = TwoWindow
    /\ normalized_coords = LeftHalf
    /\ points_pixels = _get_polygon_points_pixels(normalized_coords, Window)
    /\ is_clean \in BOOLEAN
    /\ cursor_inside = None
    /\ pending_reset = None
    /\ brush_to_clean = initial_brush_to_clean
    /\ brush_score = 0
    /\ last_pos = <<0, 0>>
    /\ clock_events = <<>>
    /\ active = {}
    /\ fired = NoHooks
    /\ last_hook = "none"
    /\ printed = {}
    /\ ev = [op |-> "INIT", uid |-> 0, event |-> None, inside |-> FALSE]
    /\ query = <<0, 0>>
    /\ other \in {other_init(Square, clean) : clean \in BOOLEAN}

(* on_touch_down and on_touch_move return False: every child is handed the *)
(* event.                                                                  *)
TwoDown ==
    \E touch \in TwoTouches :
        /\ touch.uid \notin active
        /\ {touch.uid} # cursor_inside
        /\ {touch.uid} # other.cursor_inside
        /\ on_touch_down(touch)
        /\ other' = other_on_touch_down(other, touch)
        /\ active' = active \cup {touch.uid}
        /\ UNCHANGED query

TwoMove ==
    \E touch \in TwoTouches :
        /\ touch.uid \in active
        /\ on_touch_move(touch)
        /\ other' = other_on_touch_move(other, touch)
        /\ UNCHANGED <<active, query>>

TwoUp ==
    \E touch \in TwoTouches :
        /\ touch.uid \in active
        /\ on_touch_up(touch)
        /\ IF on_touch_up_returns(touch)
           THEN other' = other
           ELSE /\ {touch.uid} = other.cursor_inside
                       => Len(other.clock_events) < MaxTimers
                /\ other' = other_on_touch_up(other, touch)
        /\ active' = active \ {touch.uid}
        /\ UNCHANGED query

(* The Clock fires the oldest outstanding event of the other zone. *)
OtherClockFires ==
    /\ other.clock_events # <<>>
    /\ other' = [other_reset_state(other) EXCEPT !.clock_events = Tail(@)]
    /\ Out(NoHooks, {})
    /\ ev' = [op |-> "OTHER_TIMER", uid |-> 0,
              event |-> {Head(other.clock_events)}, inside |-> FALSE]
    /\ UNCHANGED <<zone, Window, normalized_coords, points_pixels,
                   clock_events, active, query>>

NextTwoZones ==
    \/ TwoDown
    \/ TwoMove
    \/ TwoUp
    \/ ClockFires
    \/ OtherClockFires

SpecTwoZones == InitTwoZones /\ [][NextTwoZones]_vars

----------------------------------------------------------------------------
(* The logical states of a zone *)

RESOLVED == is_clean
IDLE == ~is_clean /\ cursor_inside = None /\ pending_reset = None
ENGAGED == ~is_clean /\ cursor_inside # None /\ pending_reset = None
GRACE_PERIOD == ~is_clean /\ pending_reset # None

(* The step just taken is a touch handler's *)
IsSample(e) == e.op \in {"DOWN", "MOVE", "UP"}

(* The hit test of a touch point against the cached pixel polygon *)
Inside(pos) == point_inside_polygon(points_pixels, pos[1], pos[2])

StartOnly == [NoHooks EXCEPT !.on_brush_start = 1]
StopOnly == [NoHooks EXCEPT !.on_brush_stop = 1]
StrokeOnly == [NoHooks EXCEPT !.on_brush_stroke = 1]

----------------------------------------------------------------------------
(* C1: once the zone is resolved by completing its progress units, every   *)
(* further touch sample and every Clock callback leaves all six fields of  *)
(* the zone unchanged and calls no hook.                                   *)
C1_ResolvedIgnoresEverything ==
    [][(is_clean /\ brush_to_clean <= 0
            /\ ev'.op \in {"DOWN", "MOVE", "UP", "TIMER"})
        => (zone' = zone /\ fired' = NoHooks)]_vars

(* C2: when the engaged cursor of an unresolved zone has just lifted and   *)
(* the next sample is a DOWN inside the polygon, brush_score after the     *)
(* DOWN is what it was before (on_touch_up leaves brush_score alone, so    *)
(* this is its value before the UP).                                       *)
C2_RecoveryKeepsScore ==
    [][(GRACE_PERIOD /\ ev.op = "UP" /\ cursor_inside = {ev.uid}
            /\ ev'.op = "DOWN" /\ ev'.inside)
        => brush_score' = brush_score]_vars

(* C3: in GRACE_PERIOD a DOWN inside the polygon and a MOVE inside the     *)
(* polygon each cancel the pending reset (pending_reset becomes None and   *)
(* the ClockEvent leaves the Clock) and make the zone ENGAGED.             *)
C3_DownOrMoveRecovers ==
    [][(GRACE_PERIOD /\ ev'.op \in {"DOWN", "MOVE"} /\ ev'.inside)
        => (/\ pending_reset' = None
            /\ pending_reset \cap Range(clock_events') = {}
            /\ ENGAGED')]_vars

(* C3 as amended: in GRACE_PERIOD a DOWN inside the polygon cancels the    *)
(* pending reset and makes the zone ENGAGED with the cursor of the DOWN;   *)
(* a MOVE inside the polygon leaves the pending reset scheduled.           *)
C3_DownRecovers ==
    [][/\ (GRACE_PERIOD /\ ev'.op = "DOWN" /\ ev'.inside)
            => (/\ pending_reset' = None
                /\ pending_reset \cap Range(clock_events') = {}
                /\ cursor_inside' = {ev'.uid}
                /\ ENGAGED')
       /\ (GRACE_PERIOD /\ ev'.op = "MOVE" /\ ev'.inside)
            => (/\ pending_reset' = pending_reset
                /\ clock_events' = clock_events
                /\ cursor_inside' = cursor_inside)]_vars

C3_Witness ==
    /\ ev.op = "DOWN"
    /\ ev.inside
    /\ "restored" \in printed
    /\ cursor_inside = {ev.uid}
    /\ ENGAGED

(* C4: a DOWN inside the polygon in GRACE_PERIOD calls no on_brush_stop,   *)
(* and after it no reset scheduled by an earlier UP is left on the Clock   *)
(* to call it later.                                                       *)
C4_RecoveryFiresNoStop ==
    [][(GRACE_PERIOD /\ ev'.op = "DOWN" /\ ev'.inside)
        => (fired'.on_brush_stop = 0 /\ clock_events' = <<>>)]_vars

C4_Witness ==
    /\ "recovered" \in printed
    /\ fired.on_brush_stop = 0
    /\ clock_events = <<>>
    /\ pending_reset = None

(* C5: when the reset scheduled by the engaged cursor's UP fires in        *)
(* GRACE_PERIOD, on_brush_stop is called once, the zone becomes IDLE and   *)
(* no reset stays scheduled; and while no cursor is engaged no Clock       *)
(* callback of the zone runs, so the notification is not repeated before   *)
(* a new engagement.                                                       *)
C5_ExpiryFiresOnce ==
    [][/\ (GRACE_PERIOD /\ ev'.op = "TIMER")
            => (fired' = StopOnly /\ IDLE' /\ clock_events' = <<>>)
       /\ cursor_inside = None => ev'.op # "TIMER"]_vars

C5_Witness ==
    /\ ev.op = "TIMER"
    /\ fired = StopOnly
    /\ IDLE
    /\ clock_events = <<>>

(* C6: on an unresolved zone, a MOVE of the engaged cursor inside the      *)
(* polygon that brings brush_score to exactly brush_quota calls            *)
(* on_brush_stroke once, lowers brush_to_clean by one and leaves           *)
(* brush_score at 0.                                                       *)
C6_ExactQuota ==
    [][\A touch \in Touches :
        (/\ ~is_clean
         /\ cursor_inside = {touch.uid}
         /\ ev'.op = "MOVE"
         /\ ev'.inside
         /\ brush_score + weighted_distance(touch.pos, last_pos) = brush_quota
         /\ Inside(touch.pos)
         /\ on_touch_move(touch))
        => (/\ fired' = StrokeOnly
            /\ brush_to_clean' = brush_to_clean - 1
            /\ brush_score' = 0)]_vars

C6_Witness ==
    /\ ev.op = "MOVE"
    /\ fired = StrokeOnly
    /\ brush_score = 0
    /\ brush_to_clean < initial_brush_to_clean

(* C7: in IDLE a DOWN or a MOVE inside the polygon engages the sample's    *)
(* cursor: cursor_inside is its uid, brush_score is 0, last_pos is the     *)
(* sample point, on_brush_start is called once and no other hook is.       *)
C7_IdleEngages ==
    [][\A touch \in Touches :
        (/\ IDLE
         /\ ev'.op \in {"DOWN", "MOVE"}
         /\ ev'.uid = touch.uid
         /\ ev'.inside
         /\ Inside(touch.pos)
         /\ (on_touch_down(touch) \/ on_touch_move(touch)))
        => (/\ cursor_inside' = {touch.uid}
            /\ brush_score' = 0
            /\ last_pos' = touch.pos
            /\ fired' = StartOnly
            /\ ENGAGED')]_vars

C7_Witness ==
    /\ ev.op = "MOVE"
    /\ ev.inside
    /\ fired = StartOnly
    /\ cursor_inside = {ev.uid}
    /\ brush_score = 0
    /\ "restored" \notin printed

(* C8: in ENGAGED a MOVE of the engaged cursor outside the polygon clears  *)
(* cursor_inside in that step, calls on_brush_stop once and schedules no   *)
(* reset.                                                                  *)
C8_MoveOutsideDrops ==
    [][(ENGAGED /\ ev'.op = "MOVE" /\ cursor_inside = {ev'.uid}
            /\ ~ev'.inside)
        => (/\ cursor_inside' = None
            /\ fired' = StopOnly
            /\ pending_reset' = None
            /\ clock_events' = clock_events)]_vars

C8_Witness ==
    /\ ev.op = "MOVE"
    /\ ~ev.inside
    /\ "left" \in printed
    /\ fired = StopOnly
    /\ IDLE

(* C9: in ENGAGED an UP of the engaged cursor, inside or outside the       *)
(* polygon, schedules a reset on the Clock and records it in               *)
(* pending_reset, leaves the other five fields alone and calls no          *)
(* on_brush_stop.                                                          *)
C9_UpSchedulesGrace ==
    [][(ENGAGED /\ ev'.op = "UP" /\ cursor_inside = {ev'.uid})
        => (/\ pending_reset' # None
            /\ pending_reset' \subseteq Range(clock_events')
            /\ UNCHANGED <<cursor_inside, brush_score, last_pos,
                           brush_to_clean, is_clean>>
            /\ fired'.on_brush_stop = 0)]_vars

C9_Witness ==
    /\ ev.op = "UP"
    /\ ~ev.inside
    /\ cursor_inside = {ev.uid}
    /\ GRACE_PERIOD

(* C10: in ENGAGED and in GRACE_PERIOD every sample of a cursor other than *)
(* the engaged one leaves the zone's fields unchanged and calls no hook.   *)
C10_OtherCursorRejected ==
    [][((ENGAGED \/ GRACE_PERIOD) /\ IsSample(ev')
            /\ cursor_inside # {ev'.uid})
        => (zone' = zone /\ fired' = NoHooks)]_vars

(* C10 as amended: the same, except for a DOWN inside the polygon in       *)
(* GRACE_PERIOD, which is the recovery.                                    *)
C10_OtherCursorRejectedUnlessRecovery ==
    [][((ENGAGED \/ GRACE_PERIOD) /\ IsSample(ev')
            /\ cursor_inside # {ev'.uid}
            /\ ~(GRACE_PERIOD /\ ev'.op = "DOWN" /\ ev'.inside))
        => (/\ zone' = zone
            /\ clock_events' = clock_events
            /\ fired' = NoHooks)]_vars

C10_Witness ==
    /\ ev.op = "DOWN"
    /\ ev.inside
    /\ "rejected" \in printed
    /\ cursor_inside # None
    /\ cursor_inside # {ev.uid}
    /\ ENGAGED

(* C11: once is_clean is true it stays true, and from then on no step      *)
(* calls on_brush_start and cursor_inside never goes from None to a uid,   *)
(* whatever samples arrive.                                                *)
C11_ResolvedNeverReengages ==
    [][is_clean
        => (/\ is_clean'
            /\ fired'.on_brush_start = 0
            /\ (cursor_inside = None => cursor_inside' = None))]_vars

C11_Witness ==
    /\ is_clean
    /\ brush_to_clean = 0
    /\ cursor_inside = None
    /\ ev.op = "MOVE"
    /\ ev.inside
    /\ fired = NoHooks

(* C12: brush_to_clean is always an integer between 0 and its initial      *)
(* value, and a step that calls on_brush_stroke has lowered it, so that    *)
(* a zone calls on_brush_stroke at most initial_brush_to_clean times.      *)
C12_BrushToCleanInRange ==
    /\ brush_to_clean \in 0..initial_brush_to_clean
    /\ fired.on_brush_stroke <= initial_brush_to_clean - brush_to_clean

C12_Witness ==
    /\ brush_to_clean = 0
    /\ fired = StrokeOnly
    /\ ev.op = "MOVE"
    /\ is_clean

(* C17: for the square [(0,0),(1,0),(1,1),(0,1)] rescaled to a 100 x 100   *)
(* window, the hit test of a DOWN or a MOVE is true at (50,50), false at   *)
(* (150,50), and at the boundary point (100,50) it gives one and the same  *)
(* value, true, at every call, whatever the touch state of the zone is.    *)
C17_SquareHitTest ==
    [][\A touch \in SquareTouches :
        (/\ points_pixels =
                _get_polygon_points_pixels(Square,
                                           [width |-> 100, height |-> 100])
         /\ ev'.op \in {"DOWN", "MOVE"}
         /\ ev'.uid = touch.uid
         /\ (on_touch_down(touch) \/ on_touch_move(touch)))
        => (/\ touch.pos = <<50, 50>> => ev'.inside
            /\ touch.pos = <<150, 50>> => ~ev'.inside
            /\ touch.pos = <<100, 50>> => ev'.inside)]_vars

C17_Witness ==
    /\ Window = [width |-> 100, height |-> 100]
    /\ points_pixels = << <<0, 0>>, <<100, 0>>, <<100, 100>>, <<0, 100>> >>
    /\ ev.op = "MOVE"
    /\ ev.inside
    /\ cursor_inside = {ev.uid}
    /\ last_pos = <<100, 50>>
    /\ brush_score > 0

(* C18: a resize replaces points_pixels by the normalized vertices scaled  *)
(* by the new width and height per axis, changes none of the six fields    *)
(* of the zone, leaves the Clock alone and calls no hook; every other step *)
(* leaves points_pixels as cached.                                         *)
C18_ResizeRescalesOnly ==
    [][/\ ev'.op = "RESIZE"
            => (/\ Len(points_pixels') = Len(normalized_coords)
                /\ \A i \in 1..Len(normalized_coords) :
                      /\ points_pixels'[i][1] * NormUnit =
                            normalized_coords[i][1] * Window'.width
                      /\ points_pixels'[i][2] * NormUnit =
                            normalized_coords[i][2] * Window'.height
                /\ zone' = zone
                /\ clock_events' = clock_events
                /\ fired' = NoHooks)
       /\ ev'.op # "RESIZE" => points_pixels' = points_pixels]_vars

C18_Witness ==
    /\ ev.op = "RESIZE"
    /\ cursor_inside # None
    /\ brush_score > 0
    /\ Window.width # Window.height
    /\ points_pixels[2] = <<Window.width, Window.height>>

(* C20: cursor_inside is not None exactly when the zone is ENGAGED or in   *)
(* GRACE_PERIOD; it is None when the zone is IDLE or RESOLVED.             *)
C20_CursorIffEngagedOrGrace ==
    (cursor_inside # None) <=> (ENGAGED \/ GRACE_PERIOD)

----------------------------------------------------------------------------
(* Reference notions for the hit-test claims *)

NextVertex(polygon, i) == polygon[(i % Len(polygon)) + 1]

(* Twice the signed area of the triangle a, b, c *)
Cross(a, b, c) ==
    (b[1] - a[1]) * (c[2] - a[2]) - (b[2] - a[2]) * (c[1] - a[1])

(* The ray from (x, y) in the +x direction crosses the edge p1 -> p2: y is *)
(* in the half-open range of the edge and (x, y) is on the edge's line or  *)
(* on its left-hand side at height y.                                      *)
RayCrosses(x, y, p1, p2) ==
    /\ Min(p1[2], p2[2]) < y
    /\ y <= Max(p1[2], p2[2])
    /\ IF p2[2] > p1[2] THEN Cross(p1, p2, <<x, y>>) >= 0
                        ELSE Cross(p1, p2, <<x, y>>) <= 0

CrossedEdges(polygon, x, y) ==
    {i \in 1..Len(polygon) :
        RayCrosses(x, y, polygon[i], NextVertex(polygon, i))}

EvenOdd(polygon, x, y) == Cardinality(CrossedEdges(polygon, x, y)) % 2 = 1

(* A non-degenerate convex polygon: every other vertex is strictly on the  *)
(* same side of every edge.                                                *)
Convex(polygon) ==
    /\ Len(polygon) >= 3
    /\ \E s \in {-1, 1} :
          \A i \in 1..Len(polygon) :
            \A j \in 1..Len(polygon) :
                (polygon[j] # polygon[i]
                    /\ polygon[j] # NextVertex(polygon, i))
                => s * Cross(polygon[i], NextVertex(polygon, i),
                             polygon[j]) > 0
    /\ \A i, j \in 1..Len(polygon) : i # j => polygon[i] # polygon[j]

OutsideBoundingBox(polygon, x, y) ==
    \/ \A i \in 1..Len(polygon) : x < polygon[i][1]
    \/ \A i \in 1..Len(polygon) : x > polygon[i][1]
    \/ \A i \in 1..Len(polygon) : y < polygon[i][2]
    \/ \A i \in 1..Len(polygon) : y > polygon[i][2]

(* polygon with a copy of vertex k inserted right after it *)
InsertDuplicate(polygon, k) ==
    [i \in 1..(Len(polygon) + 1) |->
        IF i <= k THEN polygon[i] ELSE polygon[i - 1]]

Tested == ev.op \in {"HIT", "CENTER"}

(* C13: point_inside_polygon(x, y) is true exactly when the number of      *)
(* edges vertex[i] -> vertex[i+1 mod n] crossed by the ray from (x, y) in  *)
(* the +x direction is odd, every edge being counted at most once.         *)
C13_EvenOddReference ==
    Tested => (ev.inside <=> EvenOdd(points_pixels, query[1], query[2]))

C13_Witness ==
    /\ ev.op = "HIT"
    /\ ev.inside
    /\ Cardinality(CrossedEdges(points_pixels, query[1], query[2])) = 3

(* C14: for a convex polygon, point_inside_polygon is false at every point *)
(* strictly outside the bounding box of the pixel vertices.                *)
C14_OutsideBoundingBox ==
    (Tested /\ Convex(points_pixels)
        /\ OutsideBoundingBox(points_pixels, query[1], query[2]))
    => ~ev.inside

C14_Witness ==
    /\ ev.op = "HIT"
    /\ ~ev.inside
    /\ Convex(points_pixels)
    /\ Len(points_pixels) = 4
    /\ \A i \in 1..Len(points_pixels) : query[1] < points_pixels[i][1]
    /\ \E i, j \in 1..Len(points_pixels) :
          points_pixels[i][2] < query[2] /\ query[2] < points_pixels[j][2]

(* C15: for a non-degenerate convex polygon, point_inside_polygon is true  *)
(* at the point get_center_point returns, the average of the vertices.     *)
C15_CenterInside ==
    (ev.op = "CENTER" /\ Convex(points_pixels)) => ev.inside

C15_Witness ==
    /\ ev.op = "CENTER"
    /\ ev.inside
    /\ Convex(points_pixels)
    /\ Len(points_pixels) = 3
    /\ \A i \in 1..Len(points_pixels) : query # points_pixels[i]

(* C16: inserting a copy of any vertex right after that vertex does not    *)
(* change the result of point_inside_polygon at any point.                 *)
C16_DuplicateVertex ==
    Tested =>
        \A k \in 1..Len(points_pixels) :
            point_inside_polygon(InsertDuplicate(points_pixels, k),
                                 query[1], query[2]) = ev.inside

C16_Witness ==
    /\ ev.op = "HIT"
    /\ ev.inside
    /\ \E i \in 1..Len(points_pixels) :
          points_pixels[i][2] = query[2] /\ query[1] < points_pixels[i][1]
    /\ point_inside_polygon(InsertDuplicate(points_pixels, 1),
                            query[1], query[2])

(* C19: no zone exists whose polygon has fewer than 3 vertices or whose    *)
(* quota is not positive: the constructor rejects it.                      *)
C19_ConstructionRejectsInvalid ==
    Len(normalized_coords) >= 3 /\ brush_quota > 0

(* C21: is_clean is true exactly when the zone started clean or            *)
(* brush_to_clean has reached 0: it turns true only in the step whose      *)
(* on_brush_stroke call brings brush_to_clean to 0, it is true whenever    *)
(* brush_to_clean is 0, and a clean zone whose brush_to_clean is not 0     *)
(* still has the initial value, as it had when it started clean.           *)
C21_CleanIffStartedCleanOrZero ==
    [][/\ brush_to_clean' = 0 => is_clean'
       /\ is_clean' # is_clean
            => (/\ is_clean'
                /\ brush_to_clean = 1
                /\ brush_to_clean' = 0
                /\ fired'.on_brush_stroke = 1)
       /\ (is_clean' /\ brush_to_clean' # 0)
            => (is_clean /\ brush_to_clean' = initial_brush_to_clean)]_vars

C21_Witness ==
    /\ is_clean
    /\ brush_to_clean = 0
    /\ fired.on_brush_stroke = 1
    /\ "cleaned" \in printed
    /\ cursor_inside = {ev.uid}

C23_OneStrokePerSample ==
    [][/\ fired'.on_brush_stroke <= 1
       /\ brush_to_clean' >= brush_to_clean - 1]_vars

C23_Witness ==
    /\ ev.op = "MOVE"
    /\ fired = StrokeOnly
    /\ brush_to_clean = initial_brush_to_clean - 1
    /\ brush_score >= brush_quota

(* C24: after every sample 0 <= brush_score < brush_quota (what a sample   *)
(* adds beyond one quota is discarded).                                    *)
C24_ScoreBelowQuota ==
    0 <= brush_score /\ brush_score < brush_quota

(* C25: brush_score is 0 in every IDLE state (the step that returns the    *)
(* zone to IDLE clears it).                                                *)
C25_IdleScoreIsZero ==
    IDLE => brush_score = 0

(* C26: in IDLE an UP of any cursor, a DOWN outside the polygon and a MOVE *)
(* outside the polygon change no field of the zone, schedule nothing and   *)
(* call no hook; in any state a DOWN outside the polygon changes nothing.  *)
C26_StrangerIsNoOp ==
    [][(\/ IDLE /\ ev'.op = "UP"
        \/ IDLE /\ ev'.op \in {"DOWN", "MOVE"} /\ ~ev'.inside
        \/ ev'.op = "DOWN" /\ ~ev'.inside)
        => (/\ zone' = zone
            /\ clock_events' = clock_events
            /\ fired' = NoHooks)]_vars

C26_Witness ==
    /\ IDLE
    /\ ev.op = "UP"
    /\ ev.inside
    /\ clock_events = <<>>
    /\ fired = NoHooks
    /\ brush_to_clean < initial_brush_to_clean

(* C30: a pending reset implies an engaged cursor: pending_reset is not    *)
(* None only if cursor_inside is not None.                                 *)
C30_PendingImpliesCursor ==
    pending_reset # None => cursor_inside # None

C30_Witness ==
    /\ pending_reset # None
    /\ cursor_inside # None
    /\ ev.op = "MOVE"
    /\ cursor_inside # {ev.uid}

(* C27: a sample submitted again right after itself changes nothing: the  *)
(* six fields of the zone and the outstanding Clock events stay as the     *)
(* first submission left them and no hook is called a second time, for     *)
(* DOWN, MOVE and UP alike, provided brush_score is below brush_quota      *)
(* after the first submission.  (A sample whose handler stored its point   *)
(* in last_pos is recognised by that point; the handlers use the point of  *)
(* any other sample only through the hit test.)                            *)
C27_ResubmissionIdempotent ==
    [][\A touch \in Touches :
        (/\ IsSample(ev)
         /\ ev'.op = ev.op
         /\ ev'.uid = ev.uid
         /\ ev'.inside = ev.inside
         /\ touch.uid = ev.uid
         /\ brush_score < brush_quota
         /\ (ev.op # "UP" /\ ev.inside /\ cursor_inside = {ev.uid})
                => touch.pos = last_pos
         /\ \/ ev.op = "DOWN" /\ on_touch_down(touch)
            \/ ev.op = "MOVE" /\ on_touch_move(touch)
            \/ ev.op = "UP" /\ on_touch_up(touch))
        => (/\ zone' = zone
            /\ clock_events' = clock_events
            /\ fired' = NoHooks)]_vars

(* C28: after the UP of the engaged cursor of an unresolved zone, unless a *)
(* DOWN inside the polygon recovers the zone first, the zone eventually    *)
(* is IDLE (cursor_inside and pending_reset None); and in IDLE a DOWN or a *)
(* MOVE inside the polygon engages its cursor.                             *)
C28_ReleaseReachesIdle ==
    /\ [](GRACE_PERIOD
            => <>(\/ IDLE
                  \/ (ev.op = "DOWN" /\ ev.inside /\ "recovered" \in printed)))
    /\ [][(IDLE /\ ev'.op \in {"DOWN", "MOVE"} /\ ev'.inside)
            => (cursor_inside' = {ev'.uid} /\ fired'.on_brush_start = 1)]_vars

C28_Witness ==
    /\ IDLE
    /\ ev.op = "TIMER"
    /\ fired.on_brush_stop = 1
    /\ active # {}
    /\ brush_to_clean < initial_brush_to_clean

(* C29: zones are independent under the screen's dispatch.  When a cursor  *)
(* is lifted, every zone that has engaged its uid receives the UP and      *)
(* schedules its reset, so two overlapping zones that engaged the same     *)
(* cursor both move to GRACE_PERIOD; and no zone is left ENGAGED with a    *)
(* cursor whose contact has ended.                                         *)
C29_EveryEngagedZoneGetsUp ==
    [][/\ ev'.op = "UP" =>
            /\ {ev'.uid} = cursor_inside => pending_reset' # None
            /\ {ev'.uid} = other.cursor_inside
                   => other'.pending_reset # None
       /\ (~is_clean' /\ cursor_inside' # None /\ pending_reset' = None)
              => cursor_inside' \subseteq active'
       /\ (~other'.is_clean /\ other'.cursor_inside # None
              /\ other'.pending_reset = None)
              => other'.cursor_inside \subseteq active']_vars

(* C31: the calls of on_brush_start and on_brush_stop alternate, beginning *)
(* with on_brush_start: on_brush_start is never called when the latest of  *)
(* the two calls was on_brush_start, and on_brush_stop is called only when *)
(* the latest of the two calls was on_brush_start.                         *)
C31_StartStopAlternate ==
    [][/\ fired'.on_brush_start > 0 => last_hook # "start"
       /\ fired'.on_brush_stop > 0 => last_hook = "start"]_vars

(* C32: a scheduled reset never outlives its engagement.  When a step      *)
(* takes the zone out of GRACE_PERIOD by clearing pending_reset (recovery, *)
(* the engaged cursor's MOVE outside the polygon, or expiry), no           *)
(* _reset_state ClockEvent is outstanding afterwards; the ClockEvent that  *)
(* fires is always the one pending_reset holds; and at most one ClockEvent *)
(* of the zone is outstanding at any time.                                 *)
C32_ResetNeverOutlivesEngagement ==
    [][/\ (GRACE_PERIOD /\ pending_reset' = None) => clock_events' = <<>>
       /\ ev'.op = "TIMER" => ev'.event = pending_reset
       /\ Len(clock_events') <= 1]_vars

====
